---- MODULE Spec2Model ----
(***************************************************************************)
(* State-machine model of the two MAME drivers of this repository:        *)
(*   src/src/mame/drivers/fidel_card.cpp   Fidelity card games (card_state)*)
(*   src/src/mame/retcom87/retcom87.cpp    GT VIP (gtvip_state)            *)
(* The model covers the card scanner (start_scan, barcode_shift,           *)
(* mcu_t0_r), the reset button, the MCU port handlers and the two address  *)
(* maps.                                                                   *)
(***************************************************************************)
EXTENDS Integers, Sequences, FiniteSets, TLC

(***************************************************************************)
(* Fixed-width integer helpers (u8 / u16 / u32 arithmetic of the C++ code) *)
(***************************************************************************)

\* 1 << n
Pow2(n) == 2 ^ n

\* BIT(x, n) of emu.h: bit n of x
BIT(x, n) == (x \div Pow2(n)) % 2

RECURSIVE OrBits(_, _, _)
\* bitwise OR of the low w bits of a and b
OrBits(a, b, w) ==
  IF w = 0 \/ (a = 0 /\ b = 0) THEN 0
  ELSE (IF (a % 2) + (b % 2) > 0 THEN 1 ELSE 0) + 2 * OrBits(a \div 2, b \div 2, w - 1)

RECURSIVE XorBits(_, _, _)
\* bitwise XOR of the low w bits of a and b
XorBits(a, b, w) ==
  IF w = 0 \/ (a = 0 /\ b = 0) THEN 0
  ELSE ((a + b) % 2) + 2 * XorBits(a \div 2, b \div 2, w - 1)

RECURSIVE AndBits(_, _, _)
\* bitwise AND of the low w bits of a and b
AndBits(a, b, w) ==
  IF w = 0 \/ a = 0 \/ b = 0 THEN 0
  ELSE ((a % 2) * (b % 2)) + 2 * AndBits(a \div 2, b \div 2, w - 1)

\* u32 left shift. TLC's integers end at 2^31 - 1 and TLC stops with an
\* overflow error beyond that, so a result that would reach bit 31 (and any
\* u32 wrap-around) cannot pass unnoticed; m_barcode holds at most 19 bits.
Shl32(x, n) == x * Pow2(n)

\* logical right shift of an unsigned value
Shr(x, n) == x \div Pow2(n)

(***************************************************************************)
(* Bounds of the model                                                     *)
(***************************************************************************)

\* barcode_shift ticks recorded after a press (the timer itself never stops)
MaxTicks == 20

\* width of the start_scan parameter values tried by SpecEncode
ParamBits == 10

\* keys of the button matrix held down at the same time
MaxKeysDown == 2

(***************************************************************************)
(* Card scanner: input-port table                                          *)
(***************************************************************************)

\* number of barcode bits start_scan converts (loop bound)
BarcodeBits == 9

\* CARDS.0 with joker 2 mistyped as 0x13, the code Spades A (0x6f) shows when
\* it is swiped backwards
CARDS_0_joker_0x13 ==
  << \H6f, \H47, \Hd7, \H27, \Hb7, \H77, \He7, \H0f, \H9f, \H5f, \Hcf, \H3f, \Haf, \Hf9, \H13 >>

\* PORT_CHANGED_MEMBER(..., start_scan, code) parameters of port CARDS.0,
\* in bit order: spades A,2..10,J,Q,K, then joker 1, joker 2
CARDS_0 ==
  << \H6f, \H47, \Hd7, \H27, \Hb7, \H77, \He7, \H0f, \H9f, \H5f, \Hcf, \H3f, \Haf, \Hf9, \Hed >>

\* port CARDS.1: hearts A,2..10,J,Q,K
CARDS_1 ==
  << \H7b, \H53, \Hc3, \H33, \Ha3, \H63, \Hf3, \H1b, \H8b, \H4b, \Hdb, \H2b, \Hbb >>

\* port CARDS.2: clubs A,2..10,J,Q,K
CARDS_2 ==
  << \H69, \H95, \Hd1, \H93, \Hb1, \H71, \He1, \H87, \H99, \H59, \Hc9, \H39, \Ha9 >>

\* CARDS.3 with Diamonds K mistyped as 0xbc (lsb cleared)
CARDS_3_king_0xbc ==
  << \H7d, \H55, \Hc5, \H35, \Ha5, \H65, \Hf5, \H1d, \H8d, \H4d, \Hdd, \H2d, \Hbc >>

\* port CARDS.3: diamonds A,2..10,J,Q,K
CARDS_3 ==
  << \H7d, \H55, \Hc5, \H35, \Ha5, \H65, \Hf5, \H1d, \H8d, \H4d, \Hdd, \H2d, \Hbd >>

\* INPUT_PORTS_START( scanner ): the four ports
scanner == << CARDS_0, CARDS_1, CARDS_2, CARDS_3 >>

\* the fields of the scanner ports: <<port, bit>> (port 1 is CARDS.0)
ScannerFields == { <<p, b>> : p \in 1..4, b \in 1..15 } \ { <<p, b>> : p \in 2..4, b \in 14..15 }

\* the start_scan parameter of a field
ScanCode(f) == scanner[f[1]][f[2]]

\* all start_scan parameters of the table
ScannerCodes == { ScanCode(f) : f \in ScannerFields }

\* the 52 suited cards (the jokers are bits 14 and 15 of CARDS.0)
SuitedCards == { f \in ScannerFields : f[2] <= 13 }

(***************************************************************************)
(* State                                                                   *)
(***************************************************************************)

VARIABLES
  m_barcode,    \* card_state::m_barcode (u32)
  scan_param,   \* param of the last start_scan that had newval != 0, -1 if none
  scan_gen,     \* parity of the number of start_scan presses with newval != 0
  samples       \* mcu_t0_r after each barcode_shift tick since that press

scanVars == << m_barcode, scan_param, scan_gen, samples >>

VARIABLES
  machine,        \* the machine configuration: "ubc", "vbrc", "bv3" or "gin"
  m_inp_mux,      \* fidelbase_state::m_inp_mux, input multiplexer select
  m_led_select,   \* fidelbase_state::m_led_select, digit select
  m_7seg_data,    \* fidelbase_state::m_7seg_data, segment data (u16)
  outdata,        \* the segment word prepare_display hands to display_matrix
  dac_out,        \* last m_dac->write() value, -1 if none
  maincpu_reset,  \* state of the maincpu INPUT_LINE_RESET
  mcu_reset,      \* state of the mcu INPUT_LINE_RESET
  reset_newval,   \* newval of the last reset_button change, -1 if none
  reset_gen,      \* parity of the number of reset_button changes
  inp_matrix,     \* keys held down: <<column, row>> is bit row of port IN.column
  i8243_p2        \* what m_i8243->p2_r() returns

VARIABLES
  ram,            \* the 1K of RAM at 0x6000, the cells the model accesses: cell -> byte
  bus,            \* the last access of the main CPU to its program space
  speech_w_data,  \* data of the last speech_w call, -1 if none
  speech_gen,     \* parity of the number of speech_w calls
  speech_word,    \* the word last started on the speech chip, -1 if none
  gt_ram,         \* GT VIP: the RAM cells the model accesses: cell -> byte
  gt_bus,         \* GT VIP: the last access of the CPU to its program space
  gt_dev          \* GT VIP: the last device handler called, with its data

memVars == << ram, bus, speech_w_data, speech_gen, speech_word >>
gtVars == << gt_ram, gt_bus, gt_dev >>

dispVars == << m_inp_mux, m_led_select, m_7seg_data, outdata, dac_out >>
resetVars == << maincpu_reset, mcu_reset, reset_newval, reset_gen >>
keyVars == << inp_matrix, i8243_p2 >>

vars == << scanVars, machine, dispVars, resetVars, keyVars, memVars, gtVars >>

(***************************************************************************)
(* Card scanner handlers                                                   *)
(***************************************************************************)

RECURSIVE ScanLoop(_, _, _)
\* the for loop of start_scan: "convert bits to rising/falling edges"
ScanLoop(i, barcode, code) ==
  IF i >= BarcodeBits THEN barcode
  ELSE ScanLoop(i + 1, OrBits(Shl32(barcode, 2), Shl32(1, code % 2), 32), Shr(code, 1))

\* start_scan without its final "m_barcode <<= 1"
ScanBarcode_no_preshift(param) == ScanLoop(0, 0, param)

\* the value start_scan leaves in m_barcode for param: the loop, then
\* "m_barcode <<= 1; // in case next barcode_shift timeout is soon"
ScanBarcode(param) == Shl32(ScanLoop(0, 0, param), 1)

\* ScanBarcode tabulated once for the parameter values the model draws
BarcodeOf == [param \in 0..(Pow2(ParamBits) - 1) |-> ScanBarcode(param)]

\* READ_LINE_MEMBER(card_state::mcu_t0_r) on a value of m_barcode:
\* ~m_barcode & 1, the complement of bit 0
T0(barcode) == 1 - (barcode % 2)

\* T0 as the MCU reads it now
mcu_t0_r == T0(m_barcode)

\* machine_start: zerofill/register for savestates
InitScan ==
  /\ m_barcode = 0
  /\ scan_param = -1
  /\ scan_gen = 0
  /\ samples = << >>

\* INPUT_CHANGED_MEMBER(card_state::start_scan)
start_scan(newval, param) ==
  IF newval = 0
  THEN UNCHANGED vars
  ELSE /\ m_barcode' = BarcodeOf[param]
       /\ scan_param' = param
       /\ scan_gen' = 1 - scan_gen
       /\ samples' = << >>
       /\ UNCHANGED << machine, dispVars, resetVars, keyVars, memVars, gtVars >>

\* barcode_shift that stops shifting once a single bit is left
barcode_shift_value_sticky(barcode) == IF barcode = 1 THEN 1 ELSE Shr(barcode, 1)

\* the body of barcode_shift: m_barcode >>= 1
barcode_shift_value(barcode) == Shr(barcode, 1)

\* TIMER_DEVICE_CALLBACK_MEMBER(barcode_shift), periodic every 2 ms
barcode_shift ==
  /\ m_barcode' = barcode_shift_value(m_barcode)
  /\ samples' = IF Len(samples) < MaxTicks
                THEN Append(samples, T0(barcode_shift_value(m_barcode)))
                ELSE samples
  /\ UNCHANGED << scan_param, scan_gen, machine, dispVars, resetVars, keyVars, memVars, gtVars >>

(***************************************************************************)
(* Display, MCU ports, reset button                                        *)
(***************************************************************************)

\* the machine drivers: ubc and gin have the DAC, vbrc and bv3 the speech chip
Machines == { "ubc", "vbrc", "bv3", "gin" }

\* m_dac != nullptr: DAC_1BIT is configured by ubc() only (gin() calls ubc())
HasDac == machine \in { "ubc", "gin" }

\* m_speech != nullptr: S14001A is configured by vbrc() only (bv3() calls vbrc())
HasSpeech == machine \in { "vbrc", "bv3" }

\* the bitswap arguments with the first two exchanged
SegmentOrder_13_12 == << 13, 12, 1, 6, 5, 2, 0, 7, 15, 11, 10, 14, 4, 3, 9, 8 >>

\* the source bit of each output bit, bit 15 first, of
\* bitswap<16>(m_7seg_data,12,13,1,6,5,2,0,7,15,11,10,14,4,3,9,8)
SegmentOrder == << 12, 13, 1, 6, 5, 2, 0, 7, 15, 11, 10, 14, 4, 3, 9, 8 >>

RECURSIVE BitswapFrom(_, _, _)
\* output bits (16 - i) down to 0 of bitswap<16>(val, order)
BitswapFrom(val, order, i) ==
  IF i > 16 THEN 0
  ELSE BIT(val, order[i]) * Pow2(16 - i) + BitswapFrom(val, order, i + 1)

\* bitswap<16>(val, b15, ..., b0): output bit (16 - i) is bit order[i] of val
bitswap16(val, order) == BitswapFrom(val, order, 1)

\* the outdata of prepare_display for a value of m_7seg_data
prepare_display(seg_data) == bitswap16(seg_data, SegmentOrder)

\* the m_7seg_data ioexp_port_w<P> leaves: nibble P replaced by data & 0xf
ioexp_seg_data(seg_data, P, data) ==
  (seg_data - (BIT(seg_data, 4 * P) + 2 * BIT(seg_data, 4 * P + 1)
               + 4 * BIT(seg_data, 4 * P + 2) + 8 * BIT(seg_data, 4 * P + 3)) * Pow2(4 * P))
  + (data % 16) * Pow2(4 * P)

\* machine_start of the card driver and of its base class, for one machine
InitIO ==
  /\ machine \in Machines
  /\ m_inp_mux = 0
  /\ m_led_select = 0
  /\ m_7seg_data = 0
  /\ outdata = 0
  /\ dac_out = -1
  /\ maincpu_reset = "CLEAR_LINE"
  /\ mcu_reset = "CLEAR_LINE"
  /\ reset_newval = -1
  /\ reset_gen = 0
  /\ inp_matrix = { }
  /\ i8243_p2 = 0

\* template<int P> void card_state::ioexp_port_w(uint8_t data)
ioexp_port_w(P, data) ==
  /\ m_7seg_data' = ioexp_seg_data(m_7seg_data, P, data)
  /\ outdata' = prepare_display(ioexp_seg_data(m_7seg_data, P, data))
  /\ dac_out' = IF P = 3 /\ HasDac THEN BIT(data, 1) ELSE dac_out
  /\ UNCHANGED << m_inp_mux, m_led_select, scanVars, machine, resetVars, keyVars, memVars, gtVars >>

\* WRITE8_MEMBER(card_state::mcu_p1_w)
mcu_p1_w(data) ==
  /\ m_inp_mux' = data
  /\ m_led_select' = data
  /\ outdata' = prepare_display(m_7seg_data)
  /\ UNCHANGED << m_7seg_data, dac_out, scanVars, machine, resetVars, keyVars, memVars, gtVars >>

\* the line a reset_button change with newval sets
reset_line(newval) == IF newval # 0 THEN "ASSERT_LINE" ELSE "CLEAR_LINE"

\* reset_button wired to the main CPU only: the MCU RESET line is left alone
reset_button_maincpu_only(newval) ==
  /\ maincpu_reset' = reset_line(newval)
  /\ mcu_reset' = mcu_reset
  /\ reset_newval' = newval
  /\ reset_gen' = 1 - reset_gen
  /\ UNCHANGED << scanVars, machine, dispVars, keyVars, memVars, gtVars >>

\* INPUT_CHANGED_MEMBER(card_state::reset_button)
reset_button(newval) ==
  /\ maincpu_reset' = reset_line(newval)
  /\ mcu_reset' = reset_line(newval)
  /\ reset_newval' = newval
  /\ reset_gen' = 1 - reset_gen
  /\ UNCHANGED << scanVars, machine, dispVars, keyVars, memVars, gtVars >>

\* the keys of the button matrix: 8 columns (ports IN.0 to IN.7) of 4 rows
Keys == (0..7) \X (0..3)

\* m_inp_matrix[i]->read(): the four IP_ACTIVE_HIGH bits of port IN.i
PortRead(matrix, i) ==
  (IF <<i, 0>> \in matrix THEN 1 ELSE 0) + (IF <<i, 1>> \in matrix THEN 2 ELSE 0)
  + (IF <<i, 2>> \in matrix THEN 4 ELSE 0) + (IF <<i, 3>> \in matrix THEN 8 ELSE 0)

RECURSIVE ReadInputsFrom(_, _, _, _)
\* the loop of read_inputs from column i on
ReadInputsFrom(matrix, mux, i, columns) ==
  IF i >= columns THEN 0
  ELSE OrBits(IF BIT(mux, i) = 1 THEN PortRead(matrix, i) ELSE 0,
              ReadInputsFrom(matrix, mux, i + 1, columns), 16)

\* fidelbase_state::read_inputs(columns): the OR of the ports of the columns
\* that m_inp_mux selects
read_inputs(columns) == ReadInputsFrom(inp_matrix, m_inp_mux, 0, columns)

\* mcu_p2_r with the inputs active high: the "^ 0xf0" left out
mcu_p2_r_active_high ==
  OrBits(AndBits(i8243_p2, 15, 8), read_inputs(8) * 16, 24) % 256

\* READ8_MEMBER(card_state::mcu_p2_r):
\* (m_i8243->p2_r() & 0x0f) | (read_inputs(8) << 4 ^ 0xf0), returned as u8
mcu_p2_r ==
  OrBits(AndBits(i8243_p2, 15, 8), XorBits(read_inputs(8) * 16, 240, 24), 24) % 256

\* a key of the matrix goes down or up
key_change(k) ==
  /\ inp_matrix' = IF k \in inp_matrix THEN inp_matrix \ { k } ELSE inp_matrix \cup { k }
  /\ Cardinality(inp_matrix') <= MaxKeysDown
  /\ UNCHANGED << i8243_p2, scanVars, machine, dispVars, resetVars, memVars, gtVars >>

\* the I8243 drives another value on P2
i8243_p2_change(v) ==
  /\ i8243_p2' = v
  /\ UNCHANGED << inp_matrix, scanVars, machine, dispVars, resetVars, memVars, gtVars >>

(***************************************************************************)
(* Address maps                                                            *)
(***************************************************************************)

\* one address_map entry: map(start, end).mirror(mirror), with the target of
\* a read and of a write ("none": the entry does not handle that access)
Entry(start, end, mirror, r, w) ==
  [start |-> start, end |-> end, mirror |-> mirror, r |-> r, w |-> w]

\* main_map with the RAM mirror mistyped as 0x0c00
main_map_mirror_0x0c00 ==
  << Entry(\H0000, \H5fff, \H0000, "rom", "none"),
     Entry(\H6000, \H63ff, \H0c00, "ram", "ram"),
     Entry(\He000, \He000, \H1fff, "none", "speech_w") >>

\* main_map with the speech mirror mistyped as 0x0fff
main_map_speech_mirror_0x0fff ==
  << Entry(\H0000, \H5fff, \H0000, "rom", "none"),
     Entry(\H6000, \H63ff, \H1c00, "ram", "ram"),
     Entry(\He000, \He000, \H0fff, "none", "speech_w") >>

\* card_state::main_map:
\*   map(0x0000, 0x5fff).rom();
\*   map(0x6000, 0x63ff).mirror(0x1c00).ram();
\*   map(0xe000, 0xe000).mirror(0x1fff).w(FUNC(card_state::speech_w));
main_map ==
  << Entry(\H0000, \H5fff, \H0000, "rom", "none"),
     Entry(\H6000, \H63ff, \H1c00, "ram", "ram"),
     Entry(\He000, \He000, \H1fff, "none", "speech_w") >>

\* map.unmap_value_high() of main_map
main_unmap_value == \Hff

\* gtvip_state::main_memmap:
\*   map(0x0000, 0x7FFF).ram();
\*   map(0x8000, 0xffff).rom();
\*   map(0xdfc0, 0xdfc0).rw(m_vdp, vram_read, vram_write);
\*   map(0xdfc1, 0xdfc1).rw(m_vdp, register_read, register_write);
\*   map(0xdf10, 0xdf10).w(m_ymsnd, data_w);
\*   map(0xdf11, 0xdf11).w(m_ymsnd, address_w);
main_memmap ==
  << Entry(\H0000, \H7fff, \H0000, "ram", "ram"),
     Entry(\H8000, \Hffff, \H0000, "rom", "none"),
     Entry(\Hdfc0, \Hdfc0, \H0000, "vram_read", "vram_write"),
     Entry(\Hdfc1, \Hdfc1, \H0000, "register_read", "register_write"),
     Entry(\Hdf10, \Hdf10, \H0000, "none", "data_w"),
     Entry(\Hdf11, \Hdf11, \H0000, "none", "address_w") >>

\* the address with the mirror bits of an entry cleared
Unmirrored(e, a) == a - AndBits(a, e.mirror, 16)

\* what entry e does with an access op ("r" or "w")
Target(e, op) == IF op = "r" THEN e.r ELSE e.w

\* address a lies in the range of entry e or in one of its mirrors
Covers(e, a) ==
  LET u == Unmirrored(e, a)
  IN  u >= e.start /\ u <= e.end

\* entry e handles access op at address a
Handles(e, a, op) == Target(e, op) # "none" /\ Covers(e, a)

\* the entries of map that handle access op at address a
Matching(map, a, op) == { i \in DOMAIN map : Handles(map[i], a, op) }

\* the last of a set of entry indexes
Last(S) == CHOOSE i \in S : \A j \in S : j <= i

\* the target an access resolves to: the last entry of the map that handles
\* it, with the offset into the entry; "unmapped" when no entry does
Resolve(map, a, op) ==
  LET hit == Matching(map, a, op)
  IN  IF hit = { }
      THEN [target |-> "unmapped", offset |-> 0]
      ELSE LET e == map[Last(hit)]
           IN  [target |-> Target(e, op), offset |-> Unmirrored(e, a) - e.start]

\* the bytes the model puts on the data bus
MemData == { \H00, \Ha5 }


\* the addresses of the main CPU the model accesses on the card games
BusAddrs ==
  { \H0000, \H5fff, \H6000, \H63ff, \H6400, \H7c00, \H7fff,
    \H8000, \Hdfff, \He000, \He001, \Hffff }

\* the addresses of the CPU the model accesses on the GT VIP
GtAddrs ==
  { \H0000, \H7fff, \H8000, \Hdf00, \Hdf04, \Hdf10, \Hdf11, \Hdfbf,
    \Hdfc0, \Hdfc1, \Hdfc2, \Hdfc3, \Hdfc4, \Hdfc5, \Hdfc6, \Hdfc7, \Hdfc8, \Hffff }

\* Resolve tabulated once for the addresses the model accesses
MainTarget == [a \in BusAddrs |-> [op \in { "r", "w" } |-> Resolve(main_map, a, op)]]
GtTarget == [a \in GtAddrs |-> [op \in { "r", "w" } |-> Resolve(main_memmap, a, op)]]

\* the RAM cells those addresses reach; the model keeps these cells only, no
\* access of the model touches another one
RamCells == { MainTarget[a]["w"].offset : a \in { x \in BusAddrs : MainTarget[x]["w"].target = "ram" } }
GtRamCells == { GtTarget[a]["w"].offset : a \in { x \in GtAddrs : GtTarget[x]["w"].target = "ram" } }

InitMem ==
  /\ ram = [c \in RamCells |-> 0]
  /\ bus = [op |-> "none", addr |-> 0, data |-> 0, target |-> "none", offset |-> 0]
  /\ speech_w_data = -1
  /\ speech_gen = 0
  /\ speech_word = -1
  /\ gt_ram = [c \in GtRamCells |-> 0]
  /\ gt_bus = [op |-> "none", addr |-> 0, data |-> 0, target |-> "none", offset |-> 0]
  /\ gt_dev = [fn |-> "none", data |-> 0]

\* WRITE8_MEMBER(card_state::speech_w): nothing without the speech chip, else
\* data_w(data & 0x3f) and a pulse on start
speech_w(data) ==
  /\ speech_w_data' = data
  /\ speech_gen' = 1 - speech_gen
  /\ speech_word' = IF HasSpeech THEN AndBits(data, \H3f, 8) ELSE speech_word

\* the byte a read of the card games' program space at address a returns now;
\* rom_byte stands for the content of the ROM there
main_read_value(a, rom_byte) ==
  LET t == MainTarget[a]["r"]
  IN  CASE t.target = "ram" -> ram[t.offset]
        [] t.target = "rom" -> rom_byte
        [] OTHER -> main_unmap_value

\* the main CPU of a card game reads address a; the content of the ROMs is
\* not part of the source and may be any byte
main_read(a) ==
  /\ \E rom_byte \in MemData :
       bus' = [op |-> "r", addr |-> a, data |-> main_read_value(a, rom_byte),
               target |-> MainTarget[a]["r"].target,
               offset |-> MainTarget[a]["r"].offset]
  /\ UNCHANGED << ram, speech_w_data, speech_gen, speech_word >>
  /\ UNCHANGED << scanVars, machine, dispVars, resetVars, keyVars, gtVars >>

\* the main CPU of a card game writes data to address a
main_write(a, data) ==
  LET t == MainTarget[a]["w"]
  IN  /\ bus' = [op |-> "w", addr |-> a, data |-> data,
                 target |-> t.target, offset |-> t.offset]
      /\ ram' = IF t.target = "ram" THEN [ram EXCEPT ![t.offset] = data] ELSE ram
      /\ IF t.target = "speech_w"
         THEN speech_w(data)
         ELSE UNCHANGED << speech_w_data, speech_gen, speech_word >>
      /\ UNCHANGED << scanVars, machine, dispVars, resetVars, keyVars, gtVars >>

\* the CPU of the GT VIP reads address a; the ROM content and what the VDP
\* returns are not part of the source and may be any byte
gtvip_read(a) ==
  LET t == GtTarget[a]["r"]
  IN  /\ \E byte \in MemData :
           /\ gt_bus' = [op |-> "r", addr |-> a,
                         data |-> IF t.target = "ram" THEN gt_ram[t.offset] ELSE byte,
                         target |-> t.target, offset |-> t.offset]
           /\ gt_dev' = IF t.target \in { "vram_read", "register_read" }
                        THEN [fn |-> t.target, data |-> byte]
                        ELSE gt_dev
      /\ UNCHANGED gt_ram
      /\ UNCHANGED << scanVars, machine, dispVars, resetVars, keyVars, memVars >>

\* the CPU of the GT VIP writes data to address a
gtvip_write(a, data) ==
  LET t == GtTarget[a]["w"]
  IN  /\ gt_bus' = [op |-> "w", addr |-> a, data |-> data,
                    target |-> t.target, offset |-> t.offset]
      /\ gt_ram' = IF t.target = "ram" THEN [gt_ram EXCEPT ![t.offset] = data] ELSE gt_ram
      /\ gt_dev' = IF t.target \in { "vram_write", "register_write", "data_w", "address_w" }
                   THEN [fn |-> t.target, data |-> data]
                   ELSE gt_dev
      /\ UNCHANGED << scanVars, machine, dispVars, resetVars, keyVars, memVars >>

(***************************************************************************)
(* Specifications                                                          *)
(***************************************************************************)

Init == InitScan /\ InitIO /\ InitMem

\* the Voice Bridge Challenger alone
InitVbrc == Init /\ machine = "vbrc"

\* a scanner field changes (pressed: newval 1, released: newval 0)
ScanPress == \E newval \in 0..1, f \in ScannerFields : start_scan(newval, ScanCode(f))

ScanTick == barcode_shift

NextScan == ScanPress \/ ScanTick

\* the card scanner of one machine; the periodic timer keeps ticking
SpecScan == InitVbrc /\ [][NextScan]_vars /\ WF_vars(ScanTick)

\* one start_scan press, on any parameter value of ParamBits bits, and no
\* further press after it
EncodePress ==
  /\ scan_param = -1
  /\ \E newval \in 0..1, param \in 0..(Pow2(ParamBits) - 1) : start_scan(newval, param)

NextEncode == EncodePress \/ ScanTick

SpecEncode == InitVbrc /\ [][NextEncode]_vars /\ WF_vars(ScanTick)

\* the bytes the model writes to P1 and to the I8243 ports
P1Data == { 0, 1, 144, 255 }
IoexpData == { 0, 15, 38 }

\* the RESET field changes
ResetChange == \E newval \in 0..1 : reset_button(newval)

\* the MCU writes port 1
P1Write == \E data \in P1Data : mcu_p1_w(data)

\* the I8243 writes one of its ports P4 to P7
IoexpWrite == \E P \in 0..3, data \in IoexpData : ioexp_port_w(P, data)

\* one card of the scanner is scanned
OneCardPress == \E newval \in 0..1 : start_scan(newval, ScanCode(<<3, 2>>))

\* the I8243 writes its port P7 (LED enable, tone, segments C and H)
P7Write == \E data \in { 0, 38 } : ioexp_port_w(3, data)

NextReset == ResetChange \/ P1Write \/ P7Write \/ OneCardPress \/ ScanTick

\* the reset button among the other handlers of the driver, on each machine
SpecReset == Init /\ [][NextReset]_vars

\* the values the model lets the I8243 drive on P2
P2Values == { 0, 5, 250, 255 }

KeyChange == \E k \in Keys : key_change(k)

P2Change == \E v \in P2Values : i8243_p2_change(v)

NextKeys == KeyChange \/ P1Write \/ P2Change

\* the button matrix read through MCU port 2
SpecKeys == InitVbrc /\ [][NextKeys]_vars

MainRead == \E a \in BusAddrs : main_read(a)

MainWrite == \E a \in BusAddrs, data \in MemData : main_write(a, data)

NextMem == MainRead \/ MainWrite

\* the program space of the card games' main CPU, on each machine
SpecMem == Init /\ [][NextMem]_vars

GtvipRead == \E a \in GtAddrs : gtvip_read(a)

GtvipWrite == \E a \in GtAddrs, data \in MemData : gtvip_write(a, data)

NextGtvip == GtvipRead \/ GtvipWrite

\* the program space of the GT VIP's CPU
SpecGtvip == InitVbrc /\ [][NextGtvip]_vars

\* the nibbles the MCU puts on a port of the I/O expander: none, each line
\* alone, all
SegData == { 0, 1, 2, 4, 8, 15 }

\* the MCU writes a nibble to port P4..P7 of the I/O expander
SegWrite == \E P \in 0..3, data \in SegData : ioexp_port_w(P, data)

NextDisplay == SegWrite \/ P1Write

\* the display of one machine: segment data and digit select
SpecDisplay == InitVbrc /\ [][NextDisplay]_vars

Next ==
  \/ ScanPress \/ ScanTick \/ ResetChange \/ P1Write \/ IoexpWrite
  \/ KeyChange \/ P2Change \/ MainRead \/ MainWrite \/ GtvipRead \/ GtvipWrite

Spec == Init /\ [][Next]_vars

(***************************************************************************)
(* Properties of the card scanner                                          *)
(***************************************************************************)

\* number of T0 half-bit samples of one barcode
HalfBits == 2 * BarcodeBits

\* C1: after a start_scan press of code c and no further press, T0 after the
\* (2k-1)-th tick is bit (9-k) of c and after the 2k-th tick its complement,
\* for k = 1..9: the code goes out msb first, one edge per bit.
C1_EdgeEncoding ==
  scan_param # -1 =>
    \A k \in 1..BarcodeBits :
      /\ 2 * k - 1 <= Len(samples) =>
           samples[2 * k - 1] = BIT(scan_param, BarcodeBits - k)
      /\ 2 * k <= Len(samples) =>
           samples[2 * k] = 1 - BIT(scan_param, BarcodeBits - k)

\* a code with bit 9 set and mixed data bits has been shifted out completely
C1_Witness ==
  /\ scan_param = 933
  /\ Len(samples) = HalfBits
  /\ samples[1] = 1 /\ samples[2] = 0
  /\ samples[HalfBits - 1] = 1 /\ samples[HalfBits] = 0

\* the T0 samples after ticks 1..18 of a scan of code, computed from start_scan,
\* barcode_shift and mcu_t0_r
ForwardSamples(code) == [t \in 1..HalfBits |-> T0(Shr(BarcodeOf[code], t))]

\* a sequence in reverse order
Reverse(s) == [i \in 1..Len(s) |-> s[Len(s) + 1 - i]]

\* C2: the 18 T0 samples of a scanned table code, in reverse time order, are
\* not the forward samples of any table code: no card scans backwards.
C2_NoBackwardScan ==
  (scan_param # -1 /\ Len(samples) >= HalfBits) =>
    \A f \in ScannerFields :
      Reverse(SubSeq(samples, 1, HalfBits)) # ForwardSamples(ScanCode(f))

\* Spades A has been shifted out completely
C2_Witness ==
  /\ scan_param = ScanCode(<<1, 1>>)
  /\ Len(samples) = HalfBits
  /\ samples = ForwardSamples(111)

\* C3: the sync bits are the same on each of the 54 cards: bit 8 (msb) of the
\* scanned code equals bit 8 of every table code, and so does bit 0 (lsb).
C3_SyncBits ==
  /\ Cardinality(ScannerFields) = 54
  /\ scan_param # -1 =>
       \A f \in ScannerFields :
         /\ BIT(ScanCode(f), BarcodeBits - 1) = BIT(scan_param, BarcodeBits - 1)
         /\ BIT(ScanCode(f), 0) = BIT(scan_param, 0)

\* Diamonds K, the last field of the table, has been shifted out completely:
\* the first bit read is 0 (msb) and the last is 1 (lsb)
C3_Witness ==
  /\ scan_param = ScanCode(<<4, 13>>)
  /\ Len(samples) = HalfBits
  /\ samples[1] = 0 /\ samples[2] = 1
  /\ samples[HalfBits - 1] = 1 /\ samples[HalfBits] = 0

\* the bits of code at the positions of set S
Field(code, S) == [p \in S |-> BIT(code, p)]

\* the sets of n bit positions of the 9-bit code
PositionSets(n) == { S \in SUBSET (0..(BarcodeBits - 1)) : Cardinality(S) = n }

\* some 2 bit positions tell the suit of all 52 suited cards
HasSuitField ==
  \E S \in PositionSets(2) :
    \A f \in SuitedCards, g \in SuitedCards :
      (f[1] = g[1]) <=> (Field(ScanCode(f), S) = Field(ScanCode(g), S))

\* some 4 bit positions tell the rank of all 52 suited cards
HasValueField ==
  \E S \in PositionSets(4) :
    \A f \in SuitedCards, g \in SuitedCards :
      (f[2] = g[2]) <=> (Field(ScanCode(f), S) = Field(ScanCode(g), S))

\* C4: the codes of the 52 suited cards have a 2-bit suit field and a 4-bit
\* value field at fixed bit positions: equal within a suit (rank), different
\* between suits (ranks). Stated of the table once a card has been scanned.
C4_SuitValueFields ==
  scan_param # -1 => (HasSuitField /\ HasValueField)

C5_Idle ==
  /\ m_barcode = 0 => mcu_t0_r = 1
  /\ (scan_param # -1 /\ Len(samples) >= HalfBits + 1) =>
       /\ m_barcode = 0
       /\ mcu_t0_r = 1
       /\ \A i \in (HalfBits + 1)..Len(samples) : samples[i] = 1

\* C5: T0 reads 1 whenever m_barcode is 0; 19 ticks after a press (and no
\* further press) m_barcode is 0 and T0 reads 1 at every later tick; and with
\* the periodic timer ticking, every scan ends (or the next press replaces it).
C5_ReturnsToIdle ==
  /\ []C5_Idle
  /\ \A g \in 0..1 :
       (m_barcode # 0 /\ scan_gen = g) ~> (m_barcode = 0 \/ scan_gen # g)

\* a scan has run out: 19 ticks or more since the press, the sensor is idle
C5_Witness ==
  /\ scan_param # -1
  /\ Len(samples) > HalfBits + 1
  /\ samples[HalfBits] = 0
  /\ m_barcode = 0
  /\ mcu_t0_r = 1

(***************************************************************************)
(* Properties of the reset button and of MCU port 2                        *)
(***************************************************************************)

C6_Lines ==
  /\ maincpu_reset = mcu_reset
  /\ reset_newval # -1 => maincpu_reset = (IF reset_newval # 0 THEN "ASSERT_LINE" ELSE "CLEAR_LINE")

\* C6: after any reset_button changes the maincpu and mcu RESET lines are in
\* the same state, asserted exactly when the last newval is non-zero; and a
\* reset_button change leaves m_barcode, the segment data and the digit/mux
\* select as they are.
C6_ResetWiring ==
  /\ []C6_Lines
  /\ [][reset_gen' # reset_gen =>
          UNCHANGED << m_barcode, m_7seg_data, outdata, m_led_select, m_inp_mux >>]_vars

\* the button was pressed and released again in the middle of a scan, with
\* digits selected and segments written
C6_Witness ==
  /\ reset_newval = 0
  /\ reset_gen = 0
  /\ maincpu_reset = "CLEAR_LINE"
  /\ mcu_reset = "CLEAR_LINE"
  /\ m_barcode # 0
  /\ m_inp_mux = 144
  /\ m_7seg_data # 0

\* no key is down in any column that m_inp_mux selects
NoSelectedKey == \A k \in inp_matrix : BIT(m_inp_mux, k[1]) = 0

\* C7: mcu_p2_r is a byte; its bits 0-3 are bits 0-3 of the I8243 P2 value,
\* whatever the keys; its bits 4-7 are the complement of bits 0-3 of
\* read_inputs(8), so 1111 when no key of a selected column is down.
C7_Port2Read ==
  /\ mcu_p2_r \in 0..255
  /\ mcu_p2_r % 16 = i8243_p2 % 16
  /\ mcu_p2_r \div 16 = 15 - (read_inputs(8) % 16)
  /\ NoSelectedKey => mcu_p2_r \div 16 = 15

\* two keys of two selected columns are down, in rows 0 and 3: P24 and P27
\* read low, P25 and P26 high, and P20-P23 show the low nibble of 0xfa
C7_Witness ==
  /\ m_inp_mux = 144
  /\ inp_matrix = { <<4, 0>>, <<7, 3>> }
  /\ i8243_p2 = 250
  /\ mcu_p2_r = 106

(***************************************************************************)
(* Properties of the address maps                                          *)
(***************************************************************************)

\* the 16-bit program address space
AddressSpace == 0..\Hffff

\* the addresses the memory map comment gives the RAM
RamRange == \H6000..\H7fff

\* every address of 0x6000-0x7FFF resolves, for reads and for writes, to RAM
\* cell (a mod 0x400)
C8_Resolves ==
  \A a \in RamRange :
    /\ Resolve(main_map, a, "r") = [target |-> "ram", offset |-> a % \H400]
    /\ Resolve(main_map, a, "w") = [target |-> "ram", offset |-> a % \H400]

\* the byte just written to a RAM address is what a read returns at each
\* address of the model with the same (a mod 0x400)
C8_ReadBack ==
  (bus.op = "w" /\ bus.addr \in RamRange) =>
    \A a \in BusAddrs \cap RamRange :
      (a % \H400 = bus.addr % \H400) => main_read_value(a, 0) = bus.data

\* C8: 0x6000-0x7FFF is 1K of RAM: every address a there resolves to cell
\* (a mod 0x400); a byte written at a is read back at every a' with the same
\* (a' mod 0x400); and a cell changes only by a write to an address a with
\* that (a mod 0x400).
C8_RamMirror ==
  /\ [](C8_Resolves /\ C8_ReadBack)
  /\ [][\A c \in RamCells :
          ram'[c] # ram[c] =>
            (bus'.op = "w" /\ bus'.addr \in RamRange /\ bus'.addr % \H400 = c)]_vars

\* a write through the mirror at 0x6400 has reached cell 0 and left what was
\* written to cell 0x3ff before as it was
C8_Witness ==
  /\ bus.op = "w"
  /\ bus.addr = \H6400
  /\ bus.data = \Ha5
  /\ ram[0] = \Ha5
  /\ main_read_value(\H7c00, 0) = \Ha5
  /\ main_read_value(\H7fff, 0) = \Ha5

\* writes to 0xE000-0xFFFF, and no others, resolve to speech_w; the three
\* entries cover 0x0000-0x5FFF, 0x6000-0x7FFF and 0xE000-0xFFFF, so no address
\* is covered twice
C9_Ranges ==
  /\ \A a \in AddressSpace :
       /\ (Resolve(main_map, a, "w").target = "speech_w") <=> (a >= \He000)
       /\ Covers(main_map[1], a) <=> (a <= \H5fff)
       /\ Covers(main_map[2], a) <=> (a \in RamRange)
       /\ Covers(main_map[3], a) <=> (a >= \He000)
       /\ Cardinality({ i \in DOMAIN main_map : Covers(main_map[i], a) }) <= 1

\* a read that no entry handles returns 0xFF
C9_UnmappedRead == (bus.op = "r" /\ bus.target = "unmapped") => bus.data = \Hff

\* C9: every write to 0xE000-0xFFFF calls speech_w with the written byte and
\* no write below 0xE000 (and no read) calls it; the ROM, RAM and speech
\* ranges do not overlap; a read no entry handles returns 0xFF.
C9_SpeechWrite ==
  /\ [](C9_Ranges /\ C9_UnmappedRead)
  /\ [][(bus'.op = "w" /\ bus'.addr >= \He000) =>
          (speech_gen' # speech_gen /\ speech_w_data' = bus'.data)]_vars
  /\ [][speech_gen' # speech_gen => (bus'.op = "w" /\ bus'.addr >= \He000)]_vars

\* on a machine with the speech chip, 0xa5 was written to 0xFFFF and started
\* word 0x25; then a read of the unused 0x8000 returned 0xFF
C9_Witness ==
  /\ HasSpeech
  /\ speech_w_data = \Ha5
  /\ speech_word = \H25
  /\ bus.op = "r"
  /\ bus.addr = \H8000
  /\ bus.target = "unmapped"
  /\ bus.data = \Hff

\* C10: the VDP VRAM port at 0xDFC0 is aliased to 0xDFC2, 0xDFC4 and 0xDFC6
\* and the register port at 0xDFC1 to 0xDFC3, 0xDFC5 and 0xDFC7: an access at
\* an alias reaches the handler an access at the base address reaches.
C10_VdpAliases ==
  /\ gt_bus.addr \in { \Hdfc2, \Hdfc4, \Hdfc6 } =>
       gt_bus.target = Resolve(main_memmap, \Hdfc0, gt_bus.op).target
  /\ gt_bus.addr \in { \Hdfc3, \Hdfc5, \Hdfc7 } =>
       gt_bus.target = Resolve(main_memmap, \Hdfc1, gt_bus.op).target

\* the targets that are memory or nothing, not a device or a port
MemoryTargets == { "ram", "rom", "unmapped" }

\* the accesses at the sound chip and at the VDP reach their handlers, not
\* the ROM whose range they lie in; every read has a target and every address
\* lies in an entry
C11_SoundAndPrecedence ==
  /\ (gt_bus.op = "w" /\ gt_bus.addr = \Hdf10) =>
       (gt_bus.target = "data_w" /\ gt_dev = [fn |-> "data_w", data |-> gt_bus.data])
  /\ (gt_bus.op = "w" /\ gt_bus.addr = \Hdf11) =>
       (gt_bus.target = "address_w" /\ gt_dev = [fn |-> "address_w", data |-> gt_bus.data])
  /\ (gt_bus.op = "r" /\ gt_bus.addr = \Hdfc0) => gt_bus.target = "vram_read"
  /\ (gt_bus.op = "r" /\ gt_bus.addr = \Hdfc1) => gt_bus.target = "register_read"
  /\ gt_bus.op = "r" => gt_bus.target # "unmapped"
  /\ gt_bus.op # "none" =>
       \E i \in DOMAIN main_memmap : Covers(main_memmap[i], gt_bus.addr)

\* C11: in the GT VIP memory map a read of 0xDF00-0xDF03, and of the aliases
\* 0xDF04-0xDF07, returns controller inputs, so it reaches a port and not
\* memory; a write to 0xDF10 reaches the YM2149 data port and a write to
\* 0xDF11 its register select; no address is without a target and the I/O
\* entries inside 0x8000-0xFFFF take precedence over the ROM entry.
C11_GtvipIo ==
  /\ (gt_bus.op = "r" /\ gt_bus.addr \in \Hdf00..\Hdf07) =>
       gt_bus.target \notin MemoryTargets
  /\ C11_SoundAndPrecedence

(***************************************************************************)
(* Properties of the display                                               *)
(***************************************************************************)

\* the output bits of prepare_display that are set when input bit b alone is
OutputsOf(b) == { o \in 0..15 : BIT(prepare_display(Pow2(b)), o) = 1 }

\* for each input bit, the output bit it drives (-1: none)
DrivenBy ==
  [b \in 0..15 |-> IF OutputsOf(b) = { } THEN -1 ELSE CHOOSE o \in OutputsOf(b) : TRUE]

\* the segment outputs: bits 0-13 of outdata, the 0x3fff of set_display_segmask
Segments(out) == out % Pow2(14)

\* a value of m_7seg_data with P7.0 and P7.1 (bits 12 and 13) set to p70, p71
WithP7(seg_data, p70, p71) ==
  seg_data + (p70 - BIT(seg_data, 12)) * Pow2(12)
           + (p71 - BIT(seg_data, 13)) * Pow2(13)

\* each input bit alone sets exactly one output bit, no two the same one, and
\* no input sets no output; P7.0 sets bit 15 and P7.1 bit 14
C12_Permutation ==
  /\ prepare_display(0) = 0
  /\ \A b \in 0..15 : Cardinality(OutputsOf(b)) = 1
  /\ \A b, c \in 0..15 : b # c => OutputsOf(b) # OutputsOf(c)
  /\ OutputsOf(12) = { 15 }
  /\ OutputsOf(13) = { 14 }

\* C12: the segment remap of prepare_display is a bijection on the 16 bits of
\* m_7seg_data: every input bit drives exactly one output bit and the output
\* shown has that bit equal to the input bit; output bit 15 is input bit 12
\* (P7.0), output bit 14 is input bit 13 (P7.1), and the segment outputs
\* (bits 0-13) are the same whatever P7.0 and P7.1 are.
C12_SegmentRemap ==
  /\ C12_Permutation
  /\ \A b \in 0..15 : BIT(outdata, DrivenBy[b]) = BIT(m_7seg_data, b)
  /\ BIT(outdata, 15) = BIT(m_7seg_data, 12)
  /\ BIT(outdata, 14) = BIT(m_7seg_data, 13)
  /\ \A p70, p71 \in 0..1 :
       Segments(prepare_display(WithP7(m_7seg_data, p70, p71))) = Segments(outdata)

\* the LED enable P7.0 is high, P7.1 low, with segments of every port lit:
\* output bit 15 is set, bit 14 is not
C12_Witness ==
  /\ m_7seg_data = \H1f48
  /\ outdata = prepare_display(\H1f48)
  /\ BIT(outdata, 15) = 1
  /\ BIT(outdata, 14) = 0
  /\ Segments(outdata) # 0

====
